---- MODULE Spec2Model ----
(***************************************************************************)
(* Task CRUD API (problem5): validators, TaskService, TaskController and   *)
(* the errorHandler middleware, over a Prisma "tasks" table.               *)
(*                                                                         *)
(* Free text (title, description, search, the id path parameter and the    *)
(* limit/offset query parameters) is a sequence of one-character strings,  *)
(* so that length, substring search and parseInt are computed.  Status     *)
(* values, object keys and messages are TLA+ strings (only compared).      *)
(***************************************************************************)
EXTENDS Integers, Sequences, FiniteSets, TLC

(***************************************************************************)
(* Bounds of the model.                                                    *)
(***************************************************************************)
MaxId == 2      \* ids the autoincrement column hands out
MaxClock == 1   \* last instant of the database clock (instants 0..MaxClock)
MaxN == 6       \* sum_to_n is run on the arguments -MaxN..MaxN

(***************************************************************************)
(* Program constants.                                                      *)
(***************************************************************************)
TitleMin == 1
TitleMax == 200
LimitMax == 100
DefaultLimit == 10
DefaultOffset == 0
\* mutant: a fourth status value
TaskStatus_WithDone == {"pending", "in_progress", "completed", "done"}

TaskStatus == {"pending", "in_progress", "completed"}
DefaultStatus == "pending"

(***************************************************************************)
(* JSON values of a request body / query string.                           *)
(***************************************************************************)
Str(s) == [t |-> "string", s |-> s]
Num(n) == [t |-> "number", n |-> n]
JsonNull == [t |-> "null"]

Keys(obj) == DOMAIN obj
Has(obj, k) == k \in DOMAIN obj

\* "x" repeated n times
Rep(ch, n) == [i \in 1..n |-> ch]

(***************************************************************************)
(* parseInt(s, 10): leading white space is skipped, then an optional sign, *)
(* then the longest prefix of decimal digits; NaN when there is no digit.  *)
(***************************************************************************)
Digits == <<"0", "1", "2", "3", "4", "5", "6", "7", "8", "9">>
IsDigit(ch) == \E i \in 1..10 : Digits[i] = ch
DigitVal(ch) == (CHOOSE i \in 1..10 : Digits[i] = ch) - 1
NaN == [nan |-> TRUE]
Number(n) == [nan |-> FALSE, n |-> n]

RECURSIVE SkipSpace(_)
SkipSpace(s) ==
  IF s # <<>> /\ Head(s) = " " THEN SkipSpace(Tail(s)) ELSE s

RECURSIVE DigitPrefix(_, _)
DigitPrefix(s, acc) ==
  IF s # <<>> /\ IsDigit(Head(s))
    THEN DigitPrefix(Tail(s), 10 * acc + DigitVal(Head(s)))
    ELSE acc

parseInt(str) ==
  LET s == SkipSpace(str)
      neg == s # <<>> /\ Head(s) = "-"
      body == IF s # <<>> /\ Head(s) \in {"-", "+"} THEN Tail(s) ELSE s
  IN IF body = <<>> \/ ~IsDigit(Head(body))
       THEN NaN
       ELSE Number((IF neg THEN -1 ELSE 1) * DigitPrefix(body, 0))

isNaN(v) == v.nan

(***************************************************************************)
(* Zod: an issue is a path and a message; a parse either succeeds with the *)
(* output object or throws a ZodError carrying the issues in order.        *)
(***************************************************************************)
Issue(path, message) == [path |-> path, message |-> message]
ZodError(issues) == [name |-> "ZodError", errors |-> issues, message |-> "zod issues"]
Ok(data) == [ok |-> TRUE, data |-> data]
Throw(error) == [ok |-> FALSE, error |-> error]

\* mutant: z.string().trim().min(lo).max(hi), spaces do not count
StringIssues_Trimmed(key, v, lo, minMsg, hi, maxMsg) ==
  IF v.t # "string" THEN <<Issue(<<key>>, "Expected string")>>
  ELSE IF Len(SelectSeq(v.s, LAMBDA ch : ch # " ")) < lo THEN <<Issue(<<key>>, minMsg)>>
  ELSE IF Len(v.s) > hi THEN <<Issue(<<key>>, maxMsg)>>
  ELSE <<>>

\* z.string().min(lo, minMsg).max(hi, maxMsg) on a present value
StringIssues(key, v, lo, minMsg, hi, maxMsg) ==
  IF v.t # "string" THEN <<Issue(<<key>>, "Expected string")>>
  ELSE IF Len(v.s) < lo THEN <<Issue(<<key>>, minMsg)>>
  ELSE IF Len(v.s) > hi THEN <<Issue(<<key>>, maxMsg)>>
  ELSE <<>>

\* z.string() on a present value
PlainStringIssues(key, v) ==
  IF v.t # "string" THEN <<Issue(<<key>>, "Expected string")>> ELSE <<>>

\* mutant: any string is taken as a status
EnumIssues_AnyString(key, v) ==
  IF v.t # "string" THEN <<Issue(<<key>>, "Expected string")>> ELSE <<>>

\* z.enum(['pending', 'in_progress', 'completed']) on a present value
EnumIssues(key, v) ==
  IF v.t # "string" THEN <<Issue(<<key>>, "Expected string")>>
  ELSE IF v.s \notin TaskStatus THEN <<Issue(<<key>>, "Invalid enum value")>>
  ELSE <<>>

\* a type or enum mismatch aborts the object parse; a failed length check
\* only marks it dirty, and refinements still run on a dirty object
Aborts(issues) ==
  \E i \in 1..Len(issues) :
    issues[i].message \in {"Required", "Expected string", "Invalid enum value"}

\* mutant: z.object(...).passthrough(), unknown keys kept
Strip_Passthrough(body, ks) ==
  [k \in DOMAIN body |-> IF body[k].t = "string" THEN body[k].s ELSE body[k].n]

\* the output object of z.object: unknown keys stripped, strings unwrapped
Strip(body, ks) == [k \in (DOMAIN body) \cap ks |-> body[k].s]

TaskKeys == {"title", "description", "status"}

\* mutant: the parse stops at the first field that fails
createTaskSchema_FirstFailure(body) ==
  LET titleIssues ==
        IF ~Has(body, "title") THEN <<Issue(<<"title">>, "Required")>>
        ELSE StringIssues("title", body["title"], TitleMin, "Title is required",
                          TitleMax, "Title too long")
      descIssues ==
        IF ~Has(body, "description") THEN <<>>
        ELSE PlainStringIssues("description", body["description"])
      statusIssues ==
        IF ~Has(body, "status") THEN <<>>
        ELSE EnumIssues("status", body["status"])
      issues == IF titleIssues # <<>> THEN titleIssues
                ELSE IF descIssues # <<>> THEN descIssues
                ELSE statusIssues
      out == Strip(body, TaskKeys)
  IN IF issues # <<>> THEN Throw(ZodError(issues))
     ELSE Ok(IF Has(out, "status") THEN out
             ELSE [k \in DOMAIN out \cup {"status"} |->
                     IF k = "status" THEN DefaultStatus ELSE out[k]])

createTaskSchema(body) ==
  LET titleIssues ==
        IF ~Has(body, "title") THEN <<Issue(<<"title">>, "Required")>>
        ELSE StringIssues("title", body["title"], TitleMin, "Title is required",
                          TitleMax, "Title too long")
      descIssues ==
        IF ~Has(body, "description") THEN <<>>
        ELSE PlainStringIssues("description", body["description"])
      statusIssues ==
        IF ~Has(body, "status") THEN <<>>
        ELSE EnumIssues("status", body["status"])
      issues == titleIssues \o descIssues \o statusIssues
      out == Strip(body, TaskKeys)
  IN IF issues # <<>> THEN Throw(ZodError(issues))
     ELSE Ok(IF Has(out, "status") THEN out
             ELSE [k \in DOMAIN out \cup {"status"} |->
                     IF k = "status" THEN DefaultStatus ELSE out[k]])

AtLeastOneMsg == "At least one field must be provided for update"

\* mutant: the refinement lets the empty object through
NonEmptyRefinement_Always(data) == Cardinality(Keys(data)) >= 0

\* .refine((data) => Object.keys(data).length > 0)
NonEmptyRefinement(data) == Cardinality(Keys(data)) > 0

updateTaskSchema(body) ==
  LET titleIssues ==
        IF ~Has(body, "title") THEN <<>>
        ELSE StringIssues("title", body["title"], TitleMin, "Title cannot be empty",
                          TitleMax, "Title too long")
      descIssues ==
        IF ~Has(body, "description") THEN <<>>
        ELSE PlainStringIssues("description", body["description"])
      statusIssues ==
        IF ~Has(body, "status") THEN <<>>
        ELSE EnumIssues("status", body["status"])
      objIssues == titleIssues \o descIssues \o statusIssues
      out == Strip(body, TaskKeys)
      refineIssues ==
        IF Aborts(objIssues) \/ NonEmptyRefinement(out) THEN <<>>
        ELSE <<Issue(<<>>, AtLeastOneMsg)>>
      issues == objIssues \o refineIssues
  IN IF issues # <<>> THEN Throw(ZodError(issues))
     ELSE Ok(out)

\* limit / offset: z.string().optional().transform(...).refine(...)
\* an empty string is falsy, so it takes the default like an absent value
NumericParam(query, key, dflt) ==
  IF ~Has(query, key) THEN Number(dflt)
  ELSE IF query[key].s = <<>> THEN Number(dflt)
  ELSE parseInt(query[key].s)

\* mutant: the range test written so that NaN passes it
limitRefinement_NaN(val) == val.nan \/ ~(val.n <= 0 \/ val.n > LimitMax)

limitRefinement(val) == ~val.nan /\ val.n > 0 /\ val.n <= LimitMax
offsetRefinement(val) == ~val.nan /\ val.n >= 0

listTasksQuerySchema(query) ==
  LET statusIssues ==
        IF ~Has(query, "status") THEN <<>>
        ELSE EnumIssues("status", query["status"])
      searchIssues ==
        IF ~Has(query, "search") THEN <<>>
        ELSE PlainStringIssues("search", query["search"])
      limitType ==
        IF ~Has(query, "limit") THEN <<>>
        ELSE PlainStringIssues("limit", query["limit"])
      offsetType ==
        IF ~Has(query, "offset") THEN <<>>
        ELSE PlainStringIssues("offset", query["offset"])
      limit == IF limitType # <<>> THEN NaN
               ELSE NumericParam(query, "limit", DefaultLimit)
      offset == IF offsetType # <<>> THEN NaN
                ELSE NumericParam(query, "offset", DefaultOffset)
      limitIssues ==
        IF limitType # <<>> THEN limitType
        ELSE IF limitRefinement(limit) THEN <<>>
        ELSE <<Issue(<<"limit">>, "Limit must be between 1 and 100")>>
      offsetIssues ==
        IF offsetType # <<>> THEN offsetType
        ELSE IF offsetRefinement(offset) THEN <<>>
        ELSE <<Issue(<<"offset">>, "Offset must be non-negative")>>
      issues == statusIssues \o searchIssues \o limitIssues \o offsetIssues
      base == Strip(query, {"status", "search"})
  IN IF issues # <<>> THEN Throw(ZodError(issues))
     ELSE Ok([k \in DOMAIN base \cup {"limit", "offset"} |->
               IF k = "limit" THEN limit
               ELSE IF k = "offset" THEN offset
               ELSE base[k]])

(***************************************************************************)
(* errorHandler: the response it sends for an error.  res.json drops keys  *)
(* whose value is undefined, so message appears only in development.       *)
(***************************************************************************)
RECURSIVE join(_, _)
join(path, sep) ==
  IF path = <<>> THEN ""
  ELSE IF Len(path) = 1 THEN path[1]
  ELSE path[1] \o sep \o join(Tail(path), sep)

PrismaKnown(code) ==
  [name |-> "PrismaClientKnownRequestError", code |-> code,
   message |-> "prisma request failed"]
OtherError(msg) == [name |-> "Error", message |-> msg]

Response(status, body) == [status |-> status, body |-> body]

\* mutant: the P2025 branch does not return and falls through to the default
errorHandler_Fallthrough(error, nodeEnv) ==
  LET zod == error.name = "ZodError"
      known == error.name = "PrismaClientKnownRequestError"
      validation ==
        Response(400, [success |-> FALSE, error |-> "Validation error",
                       details |-> [i \in 1..Len(error.errors) |->
                                      [field |-> join(error.errors[i].path, "."),
                                       message |-> error.errors[i].message]]])
      notFound == Response(404, [success |-> FALSE, error |-> "Resource not found"])
      conflict == Response(409, [success |-> FALSE, error |-> "Resource already exists"])
      internal == Response(500, [success |-> FALSE, error |-> "Internal server error"])
  IN IF zod THEN <<validation>>
     ELSE IF known /\ error.code = "P2025" THEN <<notFound, internal>>
     ELSE IF known /\ error.code = "P2002" THEN <<conflict>>
     ELSE <<internal>>

\* mutant: the message is withheld in production only
errorHandler_HiddenInProduction(error, nodeEnv) ==
  LET zod == error.name = "ZodError"
      known == error.name = "PrismaClientKnownRequestError"
      validation ==
        Response(400, [success |-> FALSE, error |-> "Validation error",
                       details |-> [i \in 1..Len(error.errors) |->
                                      [field |-> join(error.errors[i].path, "."),
                                       message |-> error.errors[i].message]]])
      notFound == Response(404, [success |-> FALSE, error |-> "Resource not found"])
      conflict == Response(409, [success |-> FALSE, error |-> "Resource already exists"])
      internal ==
        IF nodeEnv # "production"
          THEN Response(500, [success |-> FALSE, error |-> "Internal server error",
                              message |-> error.message])
          ELSE Response(500, [success |-> FALSE, error |-> "Internal server error"])
  IN IF zod THEN <<validation>>
     ELSE IF known /\ error.code = "P2025" THEN <<notFound>>
     ELSE IF known /\ error.code = "P2002" THEN <<conflict>>
     ELSE <<internal>>

\* the responses errorHandler sends for an error, in order; each branch
\* returns after its res.status(..).json(..)
errorHandler(error, nodeEnv) ==
  LET zod == error.name = "ZodError"
      known == error.name = "PrismaClientKnownRequestError"
      validation ==
        Response(400, [success |-> FALSE, error |-> "Validation error",
                       details |-> [i \in 1..Len(error.errors) |->
                                      [field |-> join(error.errors[i].path, "."),
                                       message |-> error.errors[i].message]]])
      notFound == Response(404, [success |-> FALSE, error |-> "Resource not found"])
      conflict == Response(409, [success |-> FALSE, error |-> "Resource already exists"])
      internal ==
        IF nodeEnv = "development"
          THEN Response(500, [success |-> FALSE, error |-> "Internal server error",
                              message |-> error.message])
          ELSE Response(500, [success |-> FALSE, error |-> "Internal server error"])
  IN IF zod THEN <<validation>>
     ELSE IF known /\ error.code = "P2025" THEN <<notFound>>
     ELSE IF known /\ error.code = "P2002" THEN <<conflict>>
     ELSE <<internal>>

(***************************************************************************)
(* validateTaskId: the responses it sends, the calls of next it makes and  *)
(* the parsedId it leaves on the request (none: the empty sequence).       *)
(***************************************************************************)
\* mutant: the test written id < 0, zero passes
validateTaskId_ZeroPasses(idParam) ==
  LET id == parseInt(idParam)
  IN IF isNaN(id) \/ id.n < 0
       THEN [sent |-> <<Response(400, [success |-> FALSE, error |-> "Invalid task ID",
                                       message |-> "Task ID must be a positive integer"])>>,
             nexts |-> 0, parsedId |-> <<>>]
       ELSE [sent |-> <<>>, nexts |-> 1, parsedId |-> <<id.n>>]

validateTaskId(idParam) ==
  LET id == parseInt(idParam)
  IN IF isNaN(id) \/ id.n <= 0
       THEN [sent |-> <<Response(400, [success |-> FALSE, error |-> "Invalid task ID",
                                       message |-> "Task ID must be a positive integer"])>>,
             nexts |-> 0, parsedId |-> <<>>]
       ELSE [sent |-> <<>>, nexts |-> 1, parsedId |-> <<id.n>>]

(***************************************************************************)
(* The tasks table (Prisma model Task) and the statements the service      *)
(* issues against it.  A row's description is null or a string.            *)
(***************************************************************************)
\* mutant: the status of the input does not reach the row
Row_StatusIgnored(id, data, now) ==
  [id |-> id,
   title |-> data["title"],
   description |-> IF Has(data, "description") THEN Str(data["description"])
                   ELSE JsonNull,
   status |-> DefaultStatus,
   createdAt |-> now,
   updatedAt |-> now]

\* the row prisma.task.create({ data }) inserts: a column takes the value
\* data gives it; id, createdAt and updatedAt take their @default /
\* @updatedAt value when data does not name them
Row(id, data, now) ==
  [id |-> IF Has(data, "id") THEN data["id"] ELSE id,
   title |-> data["title"],
   description |-> IF Has(data, "description") THEN Str(data["description"])
                   ELSE JsonNull,
   status |-> data["status"],
   createdAt |-> IF Has(data, "createdAt") THEN data["createdAt"] ELSE now,
   updatedAt |-> IF Has(data, "updatedAt") THEN data["updatedAt"] ELSE now]

\* mutant: the next id is one more than the largest id in the table
AllocateId_MaxPlusOne(table, next) ==
  IF DOMAIN table = {} THEN 1
  ELSE (CHOOSE i \in DOMAIN table : \A j \in DOMAIN table : j <= i) + 1

\* id Int @id @default(autoincrement()): the sequence never goes back
AllocateId(table, next) == next

\* prisma.task.create({ data })
TableCreate(table, id, data, now) ==
  LET row == Row(id, data, now)
  IN [i \in DOMAIN table \cup {row.id} |-> IF i = row.id THEN row ELSE table[i]]

\* mutant: a column that data does not name is reset
Patch_Overwrites(row, data, now) ==
  [id |-> row.id,
   title |-> IF Has(data, "title") THEN data["title"] ELSE row.title,
   description |-> IF Has(data, "description") THEN Str(data["description"])
                   ELSE JsonNull,
   status |-> IF Has(data, "status") THEN data["status"] ELSE DefaultStatus,
   createdAt |-> row.createdAt,
   updatedAt |-> now]

\* the row after prisma.task.update({ where: { id }, data }): the columns
\* data names are written, updatedAt is refreshed by @updatedAt
Patch(row, data, now) ==
  [id |-> IF Has(data, "id") THEN data["id"] ELSE row.id,
   title |-> IF Has(data, "title") THEN data["title"] ELSE row.title,
   description |-> IF Has(data, "description") THEN Str(data["description"])
                   ELSE row.description,
   status |-> IF Has(data, "status") THEN data["status"] ELSE row.status,
   createdAt |-> IF Has(data, "createdAt") THEN data["createdAt"] ELSE row.createdAt,
   updatedAt |-> IF Has(data, "updatedAt") THEN data["updatedAt"] ELSE now]

\* mutant: update written as delete and insert, the row is stamped anew
TableUpdate_Recreate(table, id, data, now) ==
  [i \in DOMAIN table |->
     IF i = id THEN [Patch(table[i], data, now) EXCEPT !.createdAt = now] ELSE table[i]]

TableUpdate(table, id, data, now) ==
  LET row == Patch(table[id], data, now)
  IN [i \in (DOMAIN table \ {id}) \cup {row.id} |-> IF i = row.id THEN row ELSE table[i]]

\* the writer history after client c's statement wrote the columns fields
\* of row id, the table being now new
Stamp(w, new, id, fields, c) ==
  [i \in DOMAIN new |->
     [f \in {"title", "description", "status"} |->
        IF i \in DOMAIN w /\ ~(i = id /\ f \in fields) THEN w[i][f] ELSE c]]

TableDelete(table, id) == [i \in DOMAIN table \ {id} |-> table[i]]

\* { contains: search } on the SQLite database the service runs on
\* (DATABASE_URL 'file:...') is column LIKE '%search%': search occurs as a
\* contiguous part, the letters A-Z and a-z compared without regard to case
UpperCase ==
  <<"A", "B", "C", "D", "E", "F", "G", "H", "I", "J", "K", "L", "M",
    "N", "O", "P", "Q", "R", "S", "T", "U", "V", "W", "X", "Y", "Z">>
LowerCase ==
  <<"a", "b", "c", "d", "e", "f", "g", "h", "i", "j", "k", "l", "m",
    "n", "o", "p", "q", "r", "s", "t", "u", "v", "w", "x", "y", "z">>
Fold(s) ==
  [i \in 1..Len(s) |->
     IF \E k \in 1..26 : UpperCase[k] = s[i]
       THEN LowerCase[CHOOSE k \in 1..26 : UpperCase[k] = s[i]]
       ELSE s[i]]

Contains(hay, needle) ==
  \E i \in 0..(Len(hay) - Len(needle)) :
    SubSeq(Fold(hay), i + 1, i + Len(needle)) = Fold(needle)

\* the where clause listTasks builds: status when truthy, OR of the two
\* contains tests when search is truthy (the empty string is falsy)
Where(query) ==
  [status |-> IF Has(query, "status") /\ query["status"] # "" THEN <<query["status"]>>
              ELSE <<>>,
   search |-> IF Has(query, "search") /\ query["search"] # <<>> THEN <<query["search"]>>
              ELSE <<>>]

Matches(row, where) ==
  /\ where.status # <<>> => row.status = where.status[1]
  /\ where.search # <<>> =>
       \/ Contains(row.title, where.search[1])
       \/ row.description.t = "string" /\ Contains(row.description.s, where.search[1])

Matching(table, where) == {i \in DOMAIN table : Matches(table[i], where)}

\* mutant: orderBy: { createdAt: 'asc' }
Orderings_Ascending(table, ids) ==
  {ord \in [1..Cardinality(ids) -> ids] :
     /\ \A a, b \in 1..Cardinality(ids) : a # b => ord[a] # ord[b]
     /\ \A a, b \in 1..Cardinality(ids) :
          a < b => table[ord[a]].createdAt <= table[ord[b]].createdAt}

\* the orders orderBy: { createdAt: 'desc' } allows; rows with equal
\* createdAt come in an order the database chooses
Orderings(table, ids) ==
  {ord \in [1..Cardinality(ids) -> ids] :
     /\ \A a, b \in 1..Cardinality(ids) : a # b => ord[a] # ord[b]
     /\ \A a, b \in 1..Cardinality(ids) :
          a < b => table[ord[a]].createdAt >= table[ord[b]].createdAt}

\* skip: offset, take: limit
Window(seq, skip, take) ==
  SubSeq(seq, skip + 1, IF skip + take < Len(seq) THEN skip + take ELSE Len(seq))

\* const { status, search, limit = 10, offset = 0 } = query
LimitOf(query) == IF Has(query, "limit") THEN query["limit"].n ELSE DefaultLimit
OffsetOf(query) == IF Has(query, "offset") THEN query["offset"].n ELSE DefaultOffset

\* mutant: <= for <
hasMore_Inclusive(offset, limit, total) == offset + limit <= total

hasMore(offset, limit, total) == offset + limit < total

\* mutant: hasMore taken from the page being full
ListResult_PageFull(query, page, total) ==
  [data |-> page,
   pagination |-> [total |-> total,
                   limit |-> LimitOf(query),
                   offset |-> OffsetOf(query),
                   hasMore |-> Len(page) = LimitOf(query)]]

\* the value listTasks returns from the page and the count it was given
ListResult(query, page, total) ==
  [data |-> page,
   pagination |-> [total |-> total,
                   limit |-> LimitOf(query),
                   offset |-> OffsetOf(query),
                   hasMore |-> hasMore(OffsetOf(query), LimitOf(query), total)]]

(***************************************************************************)
(* State.                                                                  *)
(*   tasks    the tasks table, a function from the ids of its rows         *)
(*   nextId   the next value of the autoincrement id column                *)
(*   clock    the database's now()                                         *)
(*   nodeEnv  process.env.NODE_ENV                                         *)
(*   req      per client, the request it has in flight or last finished    *)
(*   origin   history: for each row never updated since its creation, the  *)
(*            request body it was created from                             *)
(*   call     a validator or the error handler applied on its own: the     *)
(*            function, its argument and, once applied, its value          *)
(*   deleted  history: the ids whose delete has succeeded                  *)
(*   lastList history kept by SpecReads: the query and the response of the *)
(*            list request that immediately preceded the current one       *)
(*   writer   history: for each row and each of title, description,        *)
(*            status, the client whose statement wrote it last             *)
(***************************************************************************)
VARIABLES tasks, nextId, clock, nodeEnv, req, origin, call, deleted, lastList, writer

vars == <<tasks, nextId, clock, nodeEnv, req, origin, call, deleted, lastList, writer>>

Clients == {1}
NodeEnvs == {"development", "production", "test"}

NoResponse == [status |-> 0, body |-> [success |-> FALSE]]
NoError == [name |-> "none"]
Idle == [op |-> "none", pc |-> "idle"]
NoCall == [fn |-> "none"]
NoList == [known |-> FALSE]

\* the params, body or query of the requests the clients send
IdParams == {<<"1">>, <<"0">>, <<"x">>, <<"1", ".", "5">>}
CreateBodies ==
  {[title |-> Str(<<"a">>)],
   [title |-> Str(<<"a", "b">>), description |-> Str(<<"b">>),
    status |-> Str("in_progress")],
   [title |-> Str(<<>>)],
   [title |-> Str(<<"a">>), status |-> Str("done")],
   [title |-> Str(<<"a">>), id |-> Num(7)]}
UpdateBodies ==
  {<<>>,
   [status |-> Str("completed")],
   [title |-> Str(<<"b">>), description |-> Str(<<>>)],
   [status |-> Str("done")],
   [createdAt |-> Num(0)],
   [status |-> Str("in_progress"), id |-> Num(7), createdAt |-> Num(9), updatedAt |-> Num(9)]}
ListQueries ==
  {<<>>,
   [status |-> Str("pending")],
   [search |-> Str(<<"b">>)],
   [status |-> Str("pending"), search |-> Str(<<"B">>)],
   [limit |-> Str(<<"1">>)],
   [limit |-> Str(<<"1">>), offset |-> Str(<<"1">>)],
   [limit |-> Str(<<"0">>)],
   [offset |-> Str(<<"-", "1">>)]}

(***************************************************************************)
(* TaskController: what a handler does with a request before its first     *)
(* await, and how it ends.                                                 *)
(***************************************************************************)
NewRequest(op, id, body) ==
  [op |-> op, id |-> id, body |-> body, pc |-> "run",
   idNum |-> 0, data |-> <<>>, dbCalls |-> 0,
   gotPage |-> FALSE, page |-> <<>>, gotTotal |-> FALSE, total |-> 0,
   sent |-> 0, replied |-> 0, nexts |-> 0, raised |-> NoError, response |-> NoResponse]

\* res.status(code).json(body) in a handler
Send(r, status, body) ==
  [r EXCEPT !.pc = "done", !.sent = @ + 1, !.replied = @ + 1,
            !.response = Response(status, body)]

\* next(error): Express passes the error to errorHandler, which responds
Forward(r, error, env) ==
  LET sends == errorHandler(error, env)
  IN [r EXCEPT !.pc = "done", !.nexts = @ + 1, !.raised = error,
               !.sent = @ + Len(sends), !.response = sends[1]]

\* await taskService.<operation>: n statements are issued to the database
Await(r, idNum, data, n) ==
  [r EXCEPT !.pc = "db", !.idNum = idNum, !.data = data, !.dbCalls = @ + n]

\* mutant: the id check answers in the shape of a validation error
InvalidId_WithDetails(r) ==
  Send(r, 400, [success |-> FALSE, error |-> "Invalid task ID",
                details |-> <<[field |-> "id", message |-> "Invalid task ID"]>>])

InvalidId(r) == Send(r, 400, [success |-> FALSE, error |-> "Invalid task ID"])

createHead(body, env) ==
  LET r == NewRequest("create", <<>>, body)
      v == createTaskSchema(body)
  IN IF v.ok THEN Await(r, 0, v.data, 1) ELSE Forward(r, v.error, env)

listHead(query, env) ==
  LET r == NewRequest("list", <<>>, query)
      v == listTasksQuerySchema(query)
  IN IF v.ok THEN Await(r, 0, v.data, 2) ELSE Forward(r, v.error, env)

\* mutant: the 400 is sent without return, the handler goes on
getByIdHead_NoReturn(id, env) ==
  LET r == NewRequest("getById", id, <<>>)
      n == parseInt(id)
  IN IF isNaN(n) THEN Await(InvalidId(r), 0, <<>>, 1) ELSE Await(r, n.n, <<>>, 1)

getByIdHead(id, env) ==
  LET r == NewRequest("getById", id, <<>>)
      n == parseInt(id)
  IN IF isNaN(n) THEN InvalidId(r) ELSE Await(r, n.n, <<>>, 1)

\* mutant: the service is called before the body is validated
updateHead_ServiceFirst(id, body, env) ==
  LET r == NewRequest("update", id, body)
      n == parseInt(id)
      v == updateTaskSchema(body)
  IN IF isNaN(n) THEN InvalidId(r)
     ELSE IF v.ok THEN Await(r, n.n, v.data, 1)
     ELSE Forward(Await(r, n.n, <<>>, 1), v.error, env)

updateHead(id, body, env) ==
  LET r == NewRequest("update", id, body)
      n == parseInt(id)
      v == updateTaskSchema(body)
  IN IF isNaN(n) THEN InvalidId(r)
     ELSE IF v.ok THEN Await(r, n.n, v.data, 1)
     ELSE Forward(r, v.error, env)

deleteHead(id, env) ==
  LET r == NewRequest("delete", id, <<>>)
      n == parseInt(id)
  IN IF isNaN(n) THEN InvalidId(r) ELSE Await(r, n.n, <<>>, 1)

Ready(c) == req[c].pc \in {"idle", "done"}

\* the server as deployed: an empty table, NODE_ENV = production (the error
\* handler is applied under every NODE_ENV in SpecPure below)
Init ==
  /\ tasks = <<>>
  /\ nextId = 1
  /\ clock = 0
  /\ nodeEnv = "production"
  /\ req = [c \in Clients |-> Idle]
  /\ origin = <<>>
  /\ call = NoCall
  /\ deleted = {}
  /\ lastList = NoList
  /\ writer = <<>>

\* POST /api/tasks
create(c) ==
  /\ Ready(c)
  /\ nextId <= MaxId
  /\ \E body \in CreateBodies : req' = [req EXCEPT ![c] = createHead(body, nodeEnv)]
  /\ UNCHANGED <<tasks, nextId, clock, nodeEnv, origin, call, deleted, lastList, writer>>

\* GET /api/tasks
list(c) ==
  /\ Ready(c)
  /\ \E query \in ListQueries : req' = [req EXCEPT ![c] = listHead(query, nodeEnv)]
  /\ UNCHANGED <<tasks, nextId, clock, nodeEnv, origin, call, deleted, lastList, writer>>

\* GET /api/tasks/:id
getById(c) ==
  /\ Ready(c)
  /\ \E id \in IdParams : req' = [req EXCEPT ![c] = getByIdHead(id, nodeEnv)]
  /\ UNCHANGED <<tasks, nextId, clock, nodeEnv, origin, call, deleted, lastList, writer>>

\* PUT /api/tasks/:id
update(c) ==
  /\ Ready(c)
  /\ \E id \in IdParams, body \in UpdateBodies :
       req' = [req EXCEPT ![c] = updateHead(id, body, nodeEnv)]
  /\ UNCHANGED <<tasks, nextId, clock, nodeEnv, origin, call, deleted, lastList, writer>>

\* DELETE /api/tasks/:id
delete(c) ==
  /\ Ready(c)
  /\ \E id \in IdParams : req' = [req EXCEPT ![c] = deleteHead(id, nodeEnv)]
  /\ UNCHANGED <<tasks, nextId, clock, nodeEnv, origin, call, deleted, lastList, writer>>

(***************************************************************************)
(* TaskService: a statement completes in the database and the handler      *)
(* that awaited it runs to its end.                                        *)
(***************************************************************************)
InDb(c, op) == req[c].pc = "db" /\ req[c].op = op

createTask(c) ==
  /\ InDb(c, "create")
  /\ nextId <= MaxId
  /\ LET row == Row(AllocateId(tasks, nextId), req[c].data, clock)
     IN /\ tasks' = TableCreate(tasks, AllocateId(tasks, nextId), req[c].data, clock)
        /\ origin' = [i \in DOMAIN origin \cup {row.id} |->
                        IF i = row.id THEN req[c].body ELSE origin[i]]
        /\ req' = [req EXCEPT ![c] = Send(@, 201, [success |-> TRUE, data |-> row])]
  /\ nextId' = nextId + 1
  /\ writer' = Stamp(writer, tasks', AllocateId(tasks, nextId), TaskKeys, c)
  /\ UNCHANGED <<clock, nodeEnv, call, deleted, lastList>>

\* the end of listTasks and of list, once both statements have answered
ListEnd(r) ==
  IF r.gotPage /\ r.gotTotal
    THEN LET result == ListResult(r.data, r.page, r.total)
         IN Send(r, 200, [success |-> TRUE, data |-> result.data,
                          pagination |-> result.pagination])
    ELSE r

findMany(c) ==
  /\ InDb(c, "list")
  /\ ~req[c].gotPage
  /\ \E ord \in Orderings(tasks, Matching(tasks, Where(req[c].data))) :
       LET rows == [i \in 1..Len(ord) |-> tasks[ord[i]]]
           page == Window(rows, OffsetOf(req[c].data), LimitOf(req[c].data))
       IN req' = [req EXCEPT ![c] = ListEnd([@ EXCEPT !.gotPage = TRUE, !.page = page])]
  /\ UNCHANGED <<tasks, nextId, clock, nodeEnv, origin, call, deleted, lastList, writer>>

count(c) ==
  /\ InDb(c, "list")
  /\ ~req[c].gotTotal
  /\ LET total == Cardinality(Matching(tasks, Where(req[c].data)))
     IN req' = [req EXCEPT ![c] = ListEnd([@ EXCEPT !.gotTotal = TRUE, !.total = total])]
  /\ UNCHANGED <<tasks, nextId, clock, nodeEnv, origin, call, deleted, lastList, writer>>

getTaskById(c) ==
  /\ InDb(c, "getById")
  /\ req' = [req EXCEPT ![c] =
               IF req[c].idNum \in DOMAIN tasks
                 THEN Send(@, 200, [success |-> TRUE, data |-> tasks[req[c].idNum]])
                 ELSE Send(@, 404, [success |-> FALSE, error |-> "Task not found"])]
  /\ UNCHANGED <<tasks, nextId, clock, nodeEnv, origin, call, deleted, lastList, writer>>

\* mutant: an update is refused when another client has written the row
\* since it was first stored (optimistic locking on a version column)
updateTask_ConflictCheck(c) ==
  /\ InDb(c, "update")
  /\ LET id == req[c].idNum
         found == id \in DOMAIN tasks
         stale == found /\ \E f \in TaskKeys : writer[id][f] \notin {0, c}
     IN /\ IF found /\ ~stale
             THEN /\ tasks' = TableUpdate(tasks, id, req[c].data, clock)
                  /\ req' = [req EXCEPT ![c] =
                               Send(@, 200, [success |-> TRUE,
                                             data |-> Patch(tasks[id], req[c].data, clock)])]
             ELSE /\ req' = [req EXCEPT ![c] =
                               Forward(@, PrismaKnown(IF stale THEN "P2034" ELSE "P2025"),
                                       nodeEnv)]
                  /\ tasks' = tasks
        /\ origin' = [i \in DOMAIN origin \ ({id} \cap DOMAIN tasks) |-> origin[i]]
        /\ writer' = Stamp(writer, tasks', id,
                           IF found /\ ~stale THEN DOMAIN req[c].data ELSE {}, c)
  /\ UNCHANGED <<nextId, clock, nodeEnv, call, deleted, lastList>>

\* mutant: updating an id no row has succeeds with nothing written
\* (updateMany for update)
updateTask_IgnoresMissing(c) ==
  /\ InDb(c, "update")
  /\ IF req[c].idNum \in DOMAIN tasks
       THEN /\ tasks' = TableUpdate(tasks, req[c].idNum, req[c].data, clock)
            /\ origin' = [i \in DOMAIN origin \ {req[c].idNum} |-> origin[i]]
            /\ req' = [req EXCEPT ![c] =
                         Send(@, 200, [success |-> TRUE,
                                       data |-> Patch(tasks[req[c].idNum], req[c].data, clock)])]
       ELSE /\ req' = [req EXCEPT ![c] = Send(@, 200, [success |-> TRUE, data |-> JsonNull])]
            /\ UNCHANGED <<tasks, origin>>
  /\ writer' = Stamp(writer, tasks', req[c].idNum,
                     IF req[c].idNum \in DOMAIN tasks THEN DOMAIN req[c].data ELSE {}, c)
  /\ UNCHANGED <<nextId, clock, nodeEnv, call, deleted, lastList>>

updateTask(c) ==
  /\ InDb(c, "update")
  /\ IF req[c].idNum \in DOMAIN tasks
       THEN /\ tasks' = TableUpdate(tasks, req[c].idNum, req[c].data, clock)
            /\ origin' = [i \in DOMAIN origin \ {req[c].idNum} |-> origin[i]]
            /\ req' = [req EXCEPT ![c] =
                         Send(@, 200, [success |-> TRUE,
                                       data |-> Patch(tasks[req[c].idNum], req[c].data, clock)])]
       ELSE /\ req' = [req EXCEPT ![c] = Forward(@, PrismaKnown("P2025"), nodeEnv)]
            /\ UNCHANGED <<tasks, origin>>
  /\ writer' = Stamp(writer, tasks', req[c].idNum,
                     IF req[c].idNum \in DOMAIN tasks THEN DOMAIN req[c].data ELSE {}, c)
  /\ UNCHANGED <<nextId, clock, nodeEnv, call, deleted, lastList>>

\* mutant: deleting an id no row has succeeds (deleteMany for delete)
deleteTask_Silent(c) ==
  /\ InDb(c, "delete")
  /\ tasks' = TableDelete(tasks, req[c].idNum)
  /\ origin' = [i \in DOMAIN origin \ {req[c].idNum} |-> origin[i]]
  /\ deleted' = deleted \cup ({req[c].idNum} \cap DOMAIN tasks)
  /\ req' = [req EXCEPT ![c] =
               Send(@, 200, [success |-> TRUE, message |-> "Task deleted successfully"])]
  /\ writer' = Stamp(writer, tasks', req[c].idNum, {}, c)
  /\ UNCHANGED <<nextId, clock, nodeEnv, call, lastList>>

deleteTask(c) ==
  /\ InDb(c, "delete")
  /\ IF req[c].idNum \in DOMAIN tasks
       THEN /\ tasks' = TableDelete(tasks, req[c].idNum)
            /\ origin' = [i \in DOMAIN origin \ {req[c].idNum} |-> origin[i]]
            /\ deleted' = deleted \cup {req[c].idNum}
            /\ req' = [req EXCEPT ![c] =
                         Send(@, 200, [success |-> TRUE,
                                       message |-> "Task deleted successfully"])]
       ELSE /\ req' = [req EXCEPT ![c] = Forward(@, PrismaKnown("P2025"), nodeEnv)]
            /\ UNCHANGED <<tasks, origin, deleted>>
  /\ writer' = Stamp(writer, tasks', req[c].idNum, {}, c)
  /\ UNCHANGED <<nextId, clock, nodeEnv, call, lastList>>

\* the database cannot be reached: the awaited statement rejects
unavailable(c) ==
  /\ req[c].pc = "db"
  /\ req' = [req EXCEPT ![c] = Forward(@, OtherError("db unavailable"), nodeEnv)]
  /\ UNCHANGED <<tasks, nextId, clock, nodeEnv, origin, call, deleted, lastList, writer>>

\* time passes
Tick ==
  /\ clock < MaxClock
  /\ clock' = clock + 1
  /\ UNCHANGED <<tasks, nextId, nodeEnv, req, origin, call, deleted, lastList, writer>>

Next ==
  \/ \E c \in Clients : create(c)
  \/ \E c \in Clients : list(c)
  \/ \E c \in Clients : getById(c)
  \/ \E c \in Clients : update(c)
  \/ \E c \in Clients : delete(c)
  \/ \E c \in Clients : createTask(c)
  \/ \E c \in Clients : findMany(c)
  \/ \E c \in Clients : count(c)
  \/ \E c \in Clients : getTaskById(c)
  \/ \E c \in Clients : updateTask(c)
  \/ \E c \in Clients : deleteTask(c)
  \/ \E c \in Clients : unavailable(c)
  \/ Tick

Spec == Init /\ [][Next]_vars

(***************************************************************************)
(* Repeated reads: tasks are created and the list is read again and again; *)
(* each list request remembers the list request it follows directly.       *)
(***************************************************************************)
Remember(r) ==
  IF r.pc = "done" /\ r.op = "list" /\ r.response.status = 200
    THEN [known |-> TRUE, query |-> r.body, body |-> r.response.body]
    ELSE NoList

listAgain(c) ==
  /\ Ready(c)
  /\ \E query \in ListQueries : req' = [req EXCEPT ![c] = listHead(query, nodeEnv)]
  /\ lastList' = Remember(req[c])
  /\ UNCHANGED <<tasks, nextId, clock, nodeEnv, origin, call, deleted, writer>>

NextReads ==
  \/ \E c \in Clients :
       \/ create(c)
       \/ createTask(c)
       \/ listAgain(c)
       \/ findMany(c)
       \/ count(c)
  \/ Tick

SpecReads == Init /\ [][NextReads]_vars

(***************************************************************************)
(* The validators and the error handler on their own: the argument is      *)
(* drawn from the sets below and the function is applied to it.            *)
(***************************************************************************)
Absent == <<>>
Opt(key, values) == {Absent} \cup {[k \in {key} |-> v] : v \in values}

TitleValues ==
  {Str(<<>>), Str(<<"a">>), Str(<<" ">>), Str(Rep("x", TitleMax)),
   Str(Rep("x", TitleMax + 1)), Num(5), JsonNull}
DescriptionValues == {Str(<<>>), Str(<<"b">>), JsonNull}
StatusValues ==
  {Str("pending"), Str("in_progress"), Str("completed"), Str("done"),
   Str("PENDING"), Str(""), Num(1)}
QueryStatusValues ==
  {Str("pending"), Str("in_progress"), Str("completed"), Str("done"), Str("PENDING")}
SearchValues == {Str(<<>>), Str(<<"b">>)}
LimitValues ==
  {Str(<<>>), Str(<<"1">>), Str(<<"1", "0", "0">>), Str(<<"1", "0", "1">>),
   Str(<<"0">>), Str(<<"-", "1">>), Str(<<"a", "b", "c">>), Str(<<"5", "a", "b", "c">>),
   Str(<<"1", ".", "5">>), Str(<<" ", "7">>), Str(<<"+", "2">>)}
OffsetValues ==
  {Str(<<>>), Str(<<"0">>), Str(<<"5">>), Str(<<"-", "1">>), Str(<<"-", "0">>),
   Str(<<"a", "b", "c">>), Str(<<"3", "x">>), Str(<<"1", "2", "0">>)}

TaskBodies ==
  {t @@ d @@ s @@ e : t \in Opt("title", TitleValues),
                      d \in Opt("description", DescriptionValues),
                      s \in Opt("status", StatusValues),
                      e \in Opt("id", {Num(7)})}
Queries ==
  {s @@ q @@ l @@ o : s \in Opt("status", QueryStatusValues),
                      q \in Opt("search", SearchValues),
                      l \in Opt("limit", LimitValues),
                      o \in Opt("offset", OffsetValues)}

Paths == {<<>>, <<"title">>, <<"limit">>, <<"user", "profile">>, <<"user", "profile", "email">>}
Messages == {"Required", "Title too long"}
Issues == {Issue(p, m) : p \in Paths, m \in Messages}
Errors ==
  {ZodError(<<i>>) : i \in Issues}
    \cup {ZodError(<<i, j>>) : i \in Issues, j \in Issues}
    \cup {PrismaKnown(code) : code \in {"P2025", "P2002", "P2003"}}
    \cup {OtherError(m) : m \in {"boom", "db unavailable"}}
    \cup {[name |-> "PrismaClientValidationError", message |-> "bad query"]}

IdValues ==
  {<<"1">>, <<"4", "2">>, <<"0">>, <<"-", "1">>, <<"-", "5">>, <<"a", "b", "c">>,
   <<"1", ".", "5">>, <<"0", ".", "5">>, <<"1", "2", "a", "b", "c">>, <<>>, <<" ">>,
   <<" ", "7">>, <<"0", "0", "7">>, <<"+", "3">>, <<"1", "e", "3">>}

Call(fn, arg) == [fn |-> fn, arg |-> arg, applied |-> FALSE]
Applied(fn, value) == [fn |-> fn, arg |-> call.arg, applied |-> TRUE, value |-> value]
Calls ==
  {Call("createTaskSchema", b) : b \in TaskBodies}
    \cup {Call("updateTaskSchema", b) : b \in TaskBodies}
    \cup {Call("listTasksQuerySchema", q) : q \in Queries}
    \cup {Call("errorHandler", e) : e \in Errors}
    \cup {Call("validateTaskId", p) : p \in IdValues}

InitPure ==
  /\ tasks = <<>>
  /\ nextId = 1
  /\ clock = 0
  /\ nodeEnv \in NodeEnvs
  /\ req = [c \in Clients |-> Idle]
  /\ origin = <<>>
  /\ call \in Calls
  /\ deleted = {}
  /\ lastList = NoList
  /\ writer = <<>>

Pending(fn) == call.fn = fn /\ ~call.applied

applyCreateTaskSchema ==
  /\ Pending("createTaskSchema")
  /\ call' = Applied("createTaskSchema", createTaskSchema(call.arg))
  /\ UNCHANGED <<tasks, nextId, clock, nodeEnv, req, origin, deleted, lastList, writer>>

applyUpdateTaskSchema ==
  /\ Pending("updateTaskSchema")
  /\ call' = Applied("updateTaskSchema", updateTaskSchema(call.arg))
  /\ UNCHANGED <<tasks, nextId, clock, nodeEnv, req, origin, deleted, lastList, writer>>

applyListTasksQuerySchema ==
  /\ Pending("listTasksQuerySchema")
  /\ call' = Applied("listTasksQuerySchema", listTasksQuerySchema(call.arg))
  /\ UNCHANGED <<tasks, nextId, clock, nodeEnv, req, origin, deleted, lastList, writer>>

applyErrorHandler ==
  /\ Pending("errorHandler")
  /\ call' = Applied("errorHandler", errorHandler(call.arg, nodeEnv))
  /\ UNCHANGED <<tasks, nextId, clock, nodeEnv, req, origin, deleted, lastList, writer>>

applyValidateTaskId ==
  /\ Pending("validateTaskId")
  /\ call' = Applied("validateTaskId", validateTaskId(call.arg))
  /\ UNCHANGED <<tasks, nextId, clock, nodeEnv, req, origin, deleted, lastList, writer>>

NextPure ==
  \/ applyValidateTaskId
  \/ applyCreateTaskSchema
  \/ applyUpdateTaskSchema
  \/ applyListTasksQuerySchema
  \/ applyErrorHandler

SpecPure == InitPure /\ [][NextPure]_vars

(***************************************************************************)
(* Two requests in flight at once.  The table holds one task, stored by an *)
(* earlier request (writer 0); each of two clients sends one request, and  *)
(* the statements of the two reach the database in any order.              *)
(***************************************************************************)
Racers == {1, 2}

FirstBody == [title |-> Str(<<"a">>)]

RaceUpdateBodies ==
  {[title |-> Str(<<"b">>)],
   [status |-> Str("completed")],
   [title |-> Str(<<"c">>), status |-> Str("in_progress")]}

InitRace ==
  /\ tasks = TableCreate(<<>>, 1, createTaskSchema(FirstBody).data, 0)
  /\ nextId = 2
  /\ clock = 0
  /\ nodeEnv = "production"
  /\ req = [c \in Racers |-> Idle]
  /\ origin = [i \in {1} |-> FirstBody]
  /\ call = NoCall
  /\ deleted = {}
  /\ lastList = NoList
  /\ writer = Stamp(<<>>, tasks, 1, {"title", "description", "status"}, 0)

raceCreate(c) ==
  /\ req[c].pc = "idle"
  /\ nextId <= MaxId
  /\ req' = [req EXCEPT ![c] = createHead(FirstBody, nodeEnv)]
  /\ UNCHANGED <<tasks, nextId, clock, nodeEnv, origin, call, deleted, lastList, writer>>

raceList(c) ==
  /\ req[c].pc = "idle"
  /\ req' = [req EXCEPT ![c] = listHead(<<>>, nodeEnv)]
  /\ UNCHANGED <<tasks, nextId, clock, nodeEnv, origin, call, deleted, lastList, writer>>

raceUpdate(c) ==
  /\ req[c].pc = "idle"
  /\ \E body \in RaceUpdateBodies :
       req' = [req EXCEPT ![c] = updateHead(<<"1">>, body, nodeEnv)]
  /\ UNCHANGED <<tasks, nextId, clock, nodeEnv, origin, call, deleted, lastList, writer>>

raceDelete(c) ==
  /\ req[c].pc = "idle"
  /\ req' = [req EXCEPT ![c] = deleteHead(<<"1">>, nodeEnv)]
  /\ UNCHANGED <<tasks, nextId, clock, nodeEnv, origin, call, deleted, lastList, writer>>

NextRace ==
  \E c \in Racers :
    \/ raceCreate(c)
    \/ raceList(c)
    \/ raceUpdate(c)
    \/ raceDelete(c)
    \/ createTask(c)
    \/ findMany(c)
    \/ count(c)
    \/ updateTask(c)
    \/ deleteTask(c)

SpecRace == InitRace /\ [][NextRace]_vars

(***************************************************************************)
(* sum_to_n_a, sum_to_n_b, sum_to_n_c run on one argument, a step at a     *)
(* time.  call holds the running invocation: n the parameter of the        *)
(* current activation, i and sum the locals of the loop, stack the pending *)
(* activations of the recursion (the n each has still to add), negate      *)
(* whether sum_to_n_a's outer activation waits to negate the result.       *)
(***************************************************************************)
SumFunctions == {"sum_to_n_a", "sum_to_n_b", "sum_to_n_c"}

SumCall(fn, n) ==
  [fn |-> fn, arg |-> n, applied |-> FALSE, pc |-> "entry",
   n |-> n, i |-> 0, sum |-> 0, stack |-> <<>>, negate |-> FALSE]

Return(value) ==
  [fn |-> call.fn, arg |-> call.arg, applied |-> TRUE, value |-> value]

InitSum ==
  /\ tasks = <<>>
  /\ nextId = 1
  /\ clock = 0
  /\ nodeEnv = "production"
  /\ req = [c \in Clients |-> Idle]
  /\ origin = <<>>
  /\ call \in {SumCall(fn, n) : fn \in SumFunctions, n \in (-MaxN)..MaxN}
  /\ deleted = {}
  /\ lastList = NoList
  /\ writer = <<>>

Running(fn, pc) == call.fn = fn /\ ~call.applied /\ call.pc = pc

\* if (n < 0) return -sum_to_n_a(-n)
sumA_negative ==
  /\ Running("sum_to_n_a", "entry")
  /\ call.n < 0
  /\ call' = [call EXCEPT !.n = -call.n, !.negate = TRUE]
  /\ UNCHANGED <<tasks, nextId, clock, nodeEnv, req, origin, deleted, lastList, writer>>

\* mutant: the formula applied to a negative n as well
sumA_formula_AnySign ==
  /\ Running("sum_to_n_a", "entry")
  /\ call' = Return(IF call.negate THEN -((call.n * (call.n + 1)) \div 2)
                    ELSE (call.n * (call.n + 1)) \div 2)
  /\ UNCHANGED <<tasks, nextId, clock, nodeEnv, req, origin, deleted, lastList, writer>>

\* return (n * (n + 1)) / 2, negated by the outer activation if there is one
sumA_formula ==
  /\ Running("sum_to_n_a", "entry")
  /\ call.n >= 0
  /\ call' = Return(IF call.negate THEN -((call.n * (call.n + 1)) \div 2)
                    ELSE (call.n * (call.n + 1)) \div 2)
  /\ UNCHANGED <<tasks, nextId, clock, nodeEnv, req, origin, deleted, lastList, writer>>

\* let sum = 0; the loop variable starts at 1, or at n when n is negative
sumB_enter ==
  /\ Running("sum_to_n_b", "entry")
  /\ call' = [call EXCEPT !.pc = "loop", !.sum = 0,
                          !.i = IF call.n >= 0 THEN 1 ELSE call.n]
  /\ UNCHANGED <<tasks, nextId, clock, nodeEnv, req, origin, deleted, lastList, writer>>

\* the test of the loop: i <= n, or i <= -1 when n is negative
LoopGoesOn == call.i <= (IF call.n >= 0 THEN call.n ELSE -1)

\* sum += i; i++
sumB_iterate ==
  /\ Running("sum_to_n_b", "loop")
  /\ LoopGoesOn
  /\ call' = [call EXCEPT !.sum = call.sum + call.i, !.i = call.i + 1]
  /\ UNCHANGED <<tasks, nextId, clock, nodeEnv, req, origin, deleted, lastList, writer>>

sumB_return ==
  /\ Running("sum_to_n_b", "loop")
  /\ ~LoopGoesOn
  /\ call' = Return(call.sum)
  /\ UNCHANGED <<tasks, nextId, clock, nodeEnv, req, origin, deleted, lastList, writer>>

\* return n + sum_to_n_c(n - 1), or n + sum_to_n_c(n + 1) when n is negative
sumC_recurse ==
  /\ Running("sum_to_n_c", "entry")
  /\ call.n # 0
  /\ call' = [call EXCEPT !.stack = Append(call.stack, call.n),
                          !.n = IF call.n > 0 THEN call.n - 1 ELSE call.n + 1]
  /\ UNCHANGED <<tasks, nextId, clock, nodeEnv, req, origin, deleted, lastList, writer>>

\* if (n === 0) return 0
sumC_base ==
  /\ Running("sum_to_n_c", "entry")
  /\ call.n = 0
  /\ call' = [call EXCEPT !.pc = "unwind", !.sum = 0]
  /\ UNCHANGED <<tasks, nextId, clock, nodeEnv, req, origin, deleted, lastList, writer>>

\* a pending activation adds its n to the value returned to it
sumC_unwind ==
  /\ Running("sum_to_n_c", "unwind")
  /\ call.stack # <<>>
  /\ call' = [call EXCEPT !.sum = call.stack[Len(call.stack)] + call.sum,
                          !.stack = SubSeq(call.stack, 1, Len(call.stack) - 1)]
  /\ UNCHANGED <<tasks, nextId, clock, nodeEnv, req, origin, deleted, lastList, writer>>

sumC_return ==
  /\ Running("sum_to_n_c", "unwind")
  /\ call.stack = <<>>
  /\ call' = Return(call.sum)
  /\ UNCHANGED <<tasks, nextId, clock, nodeEnv, req, origin, deleted, lastList, writer>>

NextSum ==
  \/ sumA_negative
  \/ sumA_formula
  \/ sumB_enter
  \/ sumB_iterate
  \/ sumB_return
  \/ sumC_recurse
  \/ sumC_base
  \/ sumC_unwind
  \/ sumC_return

\* a started call runs on: the engine executes the next statement
SpecSum == InitSum /\ [][NextSum]_vars /\ WF_vars(NextSum)

(***************************************************************************)
(* The service together with its units: a behaviour is either one of the   *)
(* running API or the application of one unit to one argument.             *)
(***************************************************************************)
InitService == Init \/ InitPure

NextService ==
  \/ call = NoCall /\ Next
  \/ NextPure

SpecService == InitService /\ [][NextService]_vars

(***************************************************************************)
(* Properties.                                                             *)
(***************************************************************************)
Done(c, op) == req[c].pc = "done" /\ req[c].op = op
Unavailable(r) == r.raised.name = "Error"
IsValidationFailure(r) ==
  r.response.status = 400 /\ r.response.body.error = "Validation error"

\* C1: a getById of an id returned by a create and neither updated nor
\* deleted since answers 200 with the title, description and status of the
\* create's body, the status being 'pending' when the body had none (the
\* database being reachable).
C1_RoundTrip ==
  \A c \in Clients :
    (Done(c, "getById") /\ req[c].dbCalls = 1 /\ ~Unavailable(req[c])
       /\ req[c].idNum \in DOMAIN origin) =>
      LET body == origin[req[c].idNum]
          task == req[c].response.body.data
      IN /\ req[c].response.status = 200
         /\ task.id = req[c].idNum
         /\ task.title = body["title"].s
         /\ task.description =
              (IF Has(body, "description") THEN body["description"] ELSE JsonNull)
         /\ task.status = (IF Has(body, "status") THEN body["status"].s ELSE "pending")

C1_Witness ==
  \E c \in Clients :
    /\ Done(c, "getById") /\ req[c].response.status = 200
    /\ req[c].idNum \in DOMAIN origin
    /\ ~Has(origin[req[c].idNum], "status")
    /\ ~Has(origin[req[c].idNum], "description")
    /\ req[c].response.body.data.status = "pending"

\* C2: every list response has at most limit items, echoes the limit and
\* offset of the query, and has hasMore = (offset + limit < total).
QueryNumber(query, key, dflt) ==
  IF Has(query, key) /\ query[key].s # <<>> THEN parseInt(query[key].s).n ELSE dflt

C2_Pagination ==
  \A c \in Clients :
    (Done(c, "list") /\ req[c].response.status = 200) =>
      LET p == req[c].response.body.pagination
          limit == QueryNumber(req[c].body, "limit", 10)
          offset == QueryNumber(req[c].body, "offset", 0)
      IN /\ limit \in 1..100 /\ offset >= 0
         /\ Len(req[c].response.body.data) <= limit
         /\ p.limit = limit
         /\ p.offset = offset
         /\ p.hasMore = (offset + limit < p.total)

C2_Witness ==
  \E c \in Clients :
    /\ Done(c, "list") /\ req[c].response.status = 200
    /\ req[c].response.body.pagination.hasMore
    /\ Len(req[c].response.body.data) = 1
    /\ req[c].response.body.pagination.limit = 1
    /\ req[c].response.body.pagination.total = 2

\* C3: when the database answers a getById, update or delete of an id no
\* row has, the table is unchanged and the response is 404; getTaskById
\* raised nothing (the handler answers itself), updateTask and deleteTask
\* raised the known request error P2025.
C3_NotFoundStep(c) ==
  (/\ req[c].pc = "db" /\ req'[c].pc = "done"
   /\ req[c].op \in {"getById", "update", "delete"}
   /\ req[c].idNum \notin DOMAIN tasks
   /\ ~Unavailable(req'[c])) =>
    /\ tasks' = tasks
    /\ nextId' = nextId
    /\ req'[c].response.status = 404
    /\ req'[c].sent = 1
    /\ req[c].op = "getById" => req'[c].nexts = 0 /\ req'[c].raised = NoError
    /\ req[c].op \in {"update", "delete"} =>
         /\ req'[c].nexts = 1
         /\ req'[c].raised.name = "PrismaClientKnownRequestError"
         /\ req'[c].raised.code = "P2025"

C3_NotFound == [][\A c \in Clients : C3_NotFoundStep(c)]_vars

C3_Witness ==
  \E c \in Clients :
    /\ Done(c, "delete") /\ req[c].response.status = 404
    /\ req[c].raised.name = "PrismaClientKnownRequestError"
    /\ req[c].idNum < nextId
    /\ tasks # <<>>

\* C4: updateTaskSchema rejects a body with none of title, description,
\* status (empty, or holding only other keys) with the single issue 'At
\* least one field must be provided for update', and accepts a body with at
\* least one of them when every one present satisfies its own constraint;
\* the output has exactly the recognized keys of the body, with their values.
FieldValid(key, v) ==
  /\ v.t = "string"
  /\ key = "title" => Len(v.s) >= 1 /\ Len(v.s) <= 200
  /\ key = "status" => v.s \in {"pending", "in_progress", "completed"}

C4_UpdateEmptiness ==
  (call.fn = "updateTaskSchema" /\ call.applied) =>
    LET body == call.arg
        present == Keys(body) \cap {"title", "description", "status"}
    IN /\ present = {} =>
            /\ ~call.value.ok
            /\ Len(call.value.error.errors) = 1
            /\ call.value.error.errors[1].message =
                 "At least one field must be provided for update"
            /\ call.value.error.errors[1].path = <<>>
       /\ (present # {} /\ \A k \in present : FieldValid(k, body[k])) =>
            /\ call.value.ok
            /\ Keys(call.value.data) = present
            /\ \A k \in present : call.value.data[k] = body[k].s

C4_Witness ==
  /\ call.fn = "updateTaskSchema" /\ call.applied
  /\ Keys(call.arg) = {"id"}
  /\ ~call.value.ok

\* C5: a create, update or list request that ends in a 400 validation
\* error issued no statement to the database and left the table and the id
\* counter as they were.
C5_RejectedStep(c) ==
  (/\ req'[c] # req[c]
   /\ req'[c].pc = "done"
   /\ req'[c].op \in {"create", "update", "list"}
   /\ IsValidationFailure(req'[c])) =>
    /\ req[c].pc \in {"idle", "done"}
    /\ req'[c].dbCalls = 0
    /\ tasks' = tasks
    /\ nextId' = nextId

C5_NoSideEffects == [][\A c \in Clients : C5_RejectedStep(c)]_vars

C5_Witness ==
  \E c \in Clients :
    /\ Done(c, "update") /\ IsValidationFailure(req[c])
    /\ parseInt(req[c].id).n \in DOMAIN tasks
    /\ req[c].dbCalls = 0

\* C6: every request that ends in an error response was handed to the
\* error handler with next(error).
C6_AllFailuresForwarded ==
  \A c \in Clients :
    (req[c].pc = "done" /\ ~req[c].response.body.success) => req[c].nexts = 1

\* C7: errorHandler sends exactly one response for every error: 400
\* 'Validation error' with one {field, message} per issue, in order, field
\* being the dot-joined path, for a ZodError; 404 'Resource not found' for a
\* known request error P2025; 409 'Resource already exists' for P2002; 500
\* 'Internal server error' for everything else.
Dotted(path) ==
  CASE Len(path) = 0 -> ""
    [] Len(path) = 1 -> path[1]
    [] Len(path) = 2 -> path[1] \o "." \o path[2]
    [] Len(path) = 3 -> path[1] \o "." \o path[2] \o "." \o path[3]

RECURSIVE AllDigits(_)
AllDigits(s) == s = <<>> \/ (Head(s) \in {"0", "1", "2", "3", "4", "5", "6", "7", "8", "9"} /\ AllDigits(Tail(s)))

Numeric(s) ==
  /\ s # <<>>
  /\ IF Head(s) \in {"-", "+"} THEN Tail(s) # <<>> /\ AllDigits(Tail(s)) ELSE AllDigits(s)

NamesField(result, key) ==
  /\ ~result.ok
  /\ \E i \in 1..Len(result.error.errors) : result.error.errors[i].path = <<key>>

C8_NumericParams ==
  (call.fn = "listTasksQuerySchema" /\ call.applied) =>
    /\ (Has(call.arg, "limit") /\
          (~Numeric(call.arg["limit"].s) \/ parseInt(call.arg["limit"].s).n \notin 1..100))
         => NamesField(call.value, "limit")
    /\ (Has(call.arg, "offset") /\
          (~Numeric(call.arg["offset"].s) \/ parseInt(call.arg["offset"].s).n < 0))
         => NamesField(call.value, "offset")

\* C9: an accepted list query has limit an integer in [1,100] and offset an
\* integer >= 0, neither absent nor NaN, limit = 10 and offset = 0 when the
\* parameter is absent; the service's own defaults are not used.
C9_ListQueryPopulated ==
  (call.fn = "listTasksQuerySchema" /\ call.applied /\ call.value.ok) =>
    LET q == call.value.data
    IN /\ Has(q, "limit") /\ Has(q, "offset")
       /\ ~q["limit"].nan /\ ~q["offset"].nan
       /\ q["limit"].n \in 1..100
       /\ q["offset"].n \in Nat
       /\ ~Has(call.arg, "limit") => q["limit"].n = 10
       /\ ~Has(call.arg, "offset") => q["offset"].n = 0
       /\ LimitOf(q) = q["limit"].n /\ OffsetOf(q) = q["offset"].n

C9_Witness ==
  /\ call.fn = "listTasksQuerySchema" /\ call.applied /\ call.value.ok
  /\ ~Has(call.arg, "limit")
  /\ Has(call.arg, "offset")
  /\ call.value.data["limit"].n = 10
  /\ call.value.data["offset"].n = 120

\* C10: every row of the table has status pending, in_progress or
\* completed.
C10_StatusInvariant ==
  \A i \in DOMAIN tasks : tasks[i].status \in {"pending", "in_progress", "completed"}

C10_Witness ==
  \E i \in DOMAIN tasks :
    /\ i \notin DOMAIN origin
    /\ tasks[i].status = "completed"
    /\ \E c \in Clients : Done(c, "update") /\ req[c].response.status = 200

\* C11: each of createTaskSchema, updateTaskSchema and listTasksQuerySchema
\* rejects an input whose status is a string other than pending,
\* in_progress, completed, and accepts an input whose status is one of the
\* three, keeping it, when the rest of the input is valid.
RestValid(fn, arg) ==
  /\ fn = "createTaskSchema" => Has(arg, "title")
  /\ fn # "listTasksQuerySchema" =>
        \A k \in Keys(arg) \cap {"title", "description"} : FieldValid(k, arg[k])
  /\ fn = "listTasksQuerySchema" =>
        /\ Has(arg, "limit") =>
              Numeric(arg["limit"].s) /\ parseInt(arg["limit"].s).n \in 1..100
        /\ Has(arg, "offset") =>
              Numeric(arg["offset"].s) /\ parseInt(arg["offset"].s).n >= 0

C11_StatusEnumClosure ==
  (/\ call.fn \in {"createTaskSchema", "updateTaskSchema", "listTasksQuerySchema"}
   /\ call.applied
   /\ Has(call.arg, "status")
   /\ call.arg["status"].t = "string") =>
    LET status == call.arg["status"].s
        canonical == status \in {"pending", "in_progress", "completed"}
    IN /\ ~canonical => ~call.value.ok
       /\ (canonical /\ RestValid(call.fn, call.arg)) =>
            call.value.ok /\ call.value.data["status"] = status

C11_Witness ==
  /\ call.fn = "listTasksQuerySchema" /\ call.applied
  /\ Has(call.arg, "status") /\ call.arg["status"].s = "done"
  /\ RestValid(call.fn, call.arg)
  /\ ~call.value.ok

\* C12: a successful create stores a row whose id is the next id of the
\* sequence and whose createdAt and updatedAt are the time of the insert; a
\* successful update keeps the row's id and createdAt and sets updatedAt to
\* the time of the update; in both the data given to the persistence call
\* has no key other than title, description, status, whatever the request
\* body holds.
C12_MutationStep(c) ==
  (/\ req[c].pc = "db"
   /\ req[c].op \in {"create", "update"}
   /\ req'[c].pc = "done"
   /\ req'[c].response.body.success) =>
    /\ Keys(req[c].data) \subseteq {"title", "description", "status"}
    /\ req[c].op = "create" =>
          /\ DOMAIN tasks' = DOMAIN tasks \cup {nextId}
          /\ nextId \notin DOMAIN tasks
          /\ tasks'[nextId].id = nextId
          /\ tasks'[nextId].createdAt = clock
          /\ tasks'[nextId].updatedAt = clock
    /\ req[c].op = "update" =>
          /\ DOMAIN tasks' = DOMAIN tasks
          /\ tasks'[req[c].idNum].id = req[c].idNum
          /\ tasks'[req[c].idNum].createdAt = tasks[req[c].idNum].createdAt
          /\ tasks'[req[c].idNum].updatedAt = clock
    /\ req'[c].response.body.data \in {tasks'[i] : i \in DOMAIN tasks'}

C12_ServerOwnedFields == [][\A c \in Clients : C12_MutationStep(c)]_vars

C12_Witness ==
  \E c \in Clients :
    /\ Done(c, "update") /\ req[c].response.status = 200
    /\ {"id", "createdAt", "updatedAt"} \subseteq Keys(req[c].body)
    /\ req[c].body["id"].n # req[c].idNum
    /\ req[c].body["createdAt"].n # tasks[req[c].idNum].createdAt
    /\ tasks[req[c].idNum].status = "in_progress"

\* C13: a successful update writes to the row exactly the fields of the
\* validated input and sets updatedAt to the time of the update; the fields
\* among title, description, status that the input lacks, and id and
\* createdAt, keep their values; the other rows and the set of ids are
\* unchanged.
C13_UpdateStep(c) ==
  (/\ req[c].pc = "db" /\ req[c].op = "update"
   /\ req'[c].pc = "done" /\ req'[c].response.status = 200) =>
    LET id == req[c].idNum
        data == req[c].data
        old == tasks[id]
        new == tasks'[id]
    IN /\ DOMAIN tasks' = DOMAIN tasks
       /\ \A i \in DOMAIN tasks \ {id} : tasks'[i] = tasks[i]
       /\ new.title = IF "title" \in DOMAIN data THEN data["title"] ELSE old.title
       /\ new.description =
            IF "description" \in DOMAIN data
              THEN [t |-> "string", s |-> data["description"]]
              ELSE old.description
       /\ new.status = IF "status" \in DOMAIN data THEN data["status"] ELSE old.status
       /\ new.id = old.id
       /\ new.createdAt = old.createdAt
       /\ new.updatedAt = clock
       /\ req'[c].response.body.data = new

C13_PartialUpdateFrame == [][\A c \in Clients : C13_UpdateStep(c)]_vars

C13_Witness ==
  \E c \in Clients :
    /\ Done(c, "update") /\ req[c].response.status = 200
    /\ Keys(req[c].data) = {"status"}
    /\ Cardinality(DOMAIN tasks) = 2
    /\ tasks[req[c].idNum].status = "completed"
    /\ tasks[req[c].idNum].description = Str(<<"b">>)
    /\ tasks[req[c].idNum].title = <<"a", "b">>
    /\ tasks[req[c].idNum].updatedAt > tasks[req[c].idNum].createdAt

\* C14: every row has createdAt <= updatedAt, and no step changes the
\* createdAt of a row that stays in the table.
C14_Ordered(table) == \A i \in DOMAIN table : table[i].createdAt <= table[i].updatedAt

C14_CreatedAtKept ==
  \A i \in DOMAIN tasks \cap DOMAIN tasks' : tasks'[i].createdAt = tasks[i].createdAt

C14_TimestampInvariant ==
  [][C14_Ordered(tasks) /\ C14_Ordered(tasks') /\ C14_CreatedAtKept]_vars

C14_Witness ==
  \E i \in DOMAIN tasks :
    /\ tasks[i].createdAt < tasks[i].updatedAt
    /\ tasks[i].createdAt < clock
    /\ \E c \in Clients :
         Done(c, "update") /\ req[c].response.status = 200 /\ req[c].idNum = i

\* C15: once the delete of an id has succeeded no row has that id again:
\* with the database reachable, a later getById of it answers 404, a later
\* update or delete of it fails with P2025 (answered 404), and no create
\* stores or returns a row with that id.
C15_AfterDeleteStep(c) ==
  /\ (/\ req[c].pc = "db" /\ req'[c].pc = "done"
      /\ req[c].op \in {"getById", "update", "delete"}
      /\ req[c].idNum \in deleted
      /\ ~Unavailable(req'[c])) =>
       /\ req'[c].response.status = 404
       /\ ~req'[c].response.body.success
       /\ req[c].op \in {"update", "delete"} =>
             /\ req'[c].raised.name = "PrismaClientKnownRequestError"
             /\ req'[c].raised.code = "P2025"
       /\ tasks' = tasks
  /\ (/\ req[c].pc = "db" /\ req'[c].pc = "done"
      /\ req[c].op = "create"
      /\ req'[c].response.status = 201) =>
       req'[c].response.body.data.id \notin deleted

C15_PermanentDeletion ==
  [][/\ \A c \in Clients : C15_AfterDeleteStep(c)
     /\ deleted \cap DOMAIN tasks = {}
     /\ deleted' \cap DOMAIN tasks' = {}]_vars

C15_Witness ==
  \E c \in Clients :
    /\ Done(c, "getById") /\ req[c].response.status = 404
    /\ req[c].idNum \in deleted
    /\ tasks # <<>>

\* C16: the tasks a list response counts in pagination.total, and draws
\* its items from, are exactly the rows with (status absent or row.status =
\* status) and (search absent or search a case-sensitive substring of the
\* title or of the description); a row without description matches the
\* search through its title only.
Substring(hay, needle) ==
  \E i \in 1..(Len(hay) + 1) :
    /\ i + Len(needle) - 1 <= Len(hay)
    /\ \A k \in 1..Len(needle) : hay[i + k - 1] = needle[k]

C16_Selected(query) ==
  {i \in DOMAIN tasks :
     /\ "status" \in DOMAIN query => tasks[i].status = query["status"].s
     /\ ("search" \in DOMAIN query /\ query["search"].s # <<>>) =>
          \/ Substring(tasks[i].title, query["search"].s)
          \/ /\ tasks[i].description # JsonNull
             /\ Substring(tasks[i].description.s, query["search"].s)}

C16_ListFilter ==
  \A c \in Clients :
    (Done(c, "list") /\ req[c].response.status = 200) =>
      LET body == req[c].response.body
          selected == C16_Selected(req[c].body)
      IN /\ body.pagination.total = Cardinality(selected)
         /\ \A k \in 1..Len(body.data) :
              body.data[k].id \in selected /\ body.data[k] = tasks[body.data[k].id]

\* C17: the items of a list response are the rows at positions offset+1 ..
\* offset+limit of the matching rows put newest first (rows of equal
\* createdAt in some order): no item is followed by a newer one, the rows
\* before the window are at least as new and those after it at least as old,
\* and an offset at or beyond total gives no items while total still counts
\* every matching row.
C17_NewestFirst(ord) ==
  \A a, b \in DOMAIN ord : a < b => tasks[ord[a]].createdAt >= tasks[ord[b]].createdAt

C17_Slice(ord, offset, limit) ==
  [k \in 1..(IF Len(ord) - offset < limit
               THEN (IF Len(ord) > offset THEN Len(ord) - offset ELSE 0)
               ELSE limit) |-> tasks[ord[offset + k]]]

C17_ListWindow ==
  \A c \in Clients :
    (Done(c, "list") /\ req[c].response.status = 200) =>
      LET body == req[c].response.body
          matching == Matching(tasks, Where(req[c].data))
          n == Cardinality(matching)
          offset == body.pagination.offset
          limit == body.pagination.limit
      IN /\ body.pagination.total = n
         /\ \E ord \in [1..n -> matching] :
              /\ \A a, b \in 1..n : a # b => ord[a] # ord[b]
              /\ C17_NewestFirst(ord)
              /\ body.data = C17_Slice(ord, offset, limit)
         /\ \A j, k \in DOMAIN body.data :
              j < k => body.data[j].createdAt >= body.data[k].createdAt
         /\ offset >= n => body.data = <<>>

C17_Witness ==
  \E c \in Clients :
    /\ Done(c, "list") /\ req[c].response.status = 200
    /\ req[c].response.body.pagination.offset = 1
    /\ req[c].response.body.pagination.limit = 1
    /\ req[c].response.body.pagination.total = 2
    /\ Len(req[c].response.body.data) = 1
    /\ \E i \in DOMAIN tasks :
         tasks[i].createdAt > req[c].response.body.data[1].createdAt

\* C18: pagination.hasMore of a list response is true exactly when some
\* matching row lies after the returned window, that is when the matching
\* rows number more than offset + limit; when offset + limit equals their
\* number nothing lies after the window and hasMore is false.
C18_HasMoreExact ==
  \A c \in Clients :
    (Done(c, "list") /\ req[c].response.status = 200) =>
      LET body == req[c].response.body
          n == Cardinality(Matching(tasks, Where(req[c].data)))
          offset == body.pagination.offset
          limit == body.pagination.limit
          returned == {body.data[k].id : k \in DOMAIN body.data}
          after == n - offset - Cardinality(returned)
      IN /\ body.pagination.hasMore \in BOOLEAN
         /\ body.pagination.hasMore <=> (n > offset + limit)
         /\ body.pagination.hasMore <=> (after > 0)

C18_Witness ==
  \E c \in Clients :
    /\ Done(c, "list") /\ req[c].response.status = 200
    /\ req[c].response.body.pagination.total = 2
    /\ req[c].response.body.pagination.offset + req[c].response.body.pagination.limit = 2
    /\ Len(req[c].response.body.data) = 1
    /\ ~req[c].response.body.pagination.hasMore

\* C19: a list request that directly follows a list request with the same
\* query, nothing being created, updated or deleted between the two, gets
\* the same items in the same order and the same pagination.
C19_ReadsIdempotent ==
  \A c \in Clients :
    (/\ Done(c, "list") /\ req[c].response.status = 200
     /\ lastList # NoList
     /\ lastList.query = req[c].body) =>
      /\ req[c].response.body.data = lastList.body.data
      /\ req[c].response.body.pagination = lastList.body.pagination

\* C20: getById, update and delete given an id parameter that is not a
\* positive integer written in digits make no service call and answer 400
\* 'Invalid task ID'.
PositiveInteger(s) ==
  /\ s # <<>>
  /\ AllDigits(s)
  /\ \E k \in DOMAIN s : s[k] # "0"

C20_IdValidation ==
  \A c \in Clients :
    (/\ req[c].pc # "idle"
     /\ req[c].op \in {"getById", "update", "delete"}
     /\ ~PositiveInteger(req[c].id)) =>
      /\ req[c].pc = "done"
      /\ req[c].dbCalls = 0
      /\ req[c].response.status = 400
      /\ req[c].response.body.error = "Invalid task ID"

\* C28: validateTaskId calls next once, stores the parsed integer as
\* parsedId and sends nothing exactly when parseInt(id, 10) is a number
\* greater than zero ('1.5' passes as 1); otherwise it sends the one
\* response 400 {success: false, error: 'Invalid task ID', message: 'Task ID
\* must be a positive integer'}, does not call next and sets no parsedId.
C28_ValidateTaskId ==
  (call.fn = "validateTaskId" /\ call.applied) =>
    LET id == parseInt(call.arg)
        positive == ~id.nan /\ id.n > 0
        out == call.value
    IN /\ positive =>
            out.nexts = 1 /\ out.parsedId = <<id.n>> /\ out.sent = <<>>
       /\ ~positive =>
            /\ out.nexts = 0 /\ out.parsedId = <<>>
            /\ Len(out.sent) = 1
            /\ out.sent[1].status = 400
            /\ out.sent[1].body =
                 [success |-> FALSE, error |-> "Invalid task ID",
                  message |-> "Task ID must be a positive integer"]

C28_Witness ==
  /\ call.fn = "validateTaskId" /\ call.applied
  /\ call.arg = <<"1", ".", "5">>
  /\ call.value.parsedId = <<1>>
  /\ call.value.nexts = 1

\* C21: every error response, whether sent by errorHandler, by a handler
\* or by validateTaskId, has success false and a string error, and has a
\* details array, of {field, message} entries, exactly when the failure is
\* a validation failure (a ZodError).
C21_Shape(response, validation) ==
  /\ response.body.success = FALSE
  /\ "error" \in DOMAIN response.body
  /\ response.body.error \in STRING
  /\ ("details" \in DOMAIN response.body) <=> validation
  /\ validation =>
       \A i \in DOMAIN response.body.details :
         /\ DOMAIN response.body.details[i] = {"field", "message"}
         /\ response.body.details[i].field \in STRING
         /\ response.body.details[i].message \in STRING

C21_ErrorResponseShape ==
  /\ \A c \in DOMAIN req :
       (req[c].pc = "done" /\ req[c].response.status >= 400) =>
         C21_Shape(req[c].response, req[c].raised.name = "ZodError")
  /\ (call.fn = "errorHandler" /\ call.applied) =>
       \A i \in DOMAIN call.value : C21_Shape(call.value[i], call.arg.name = "ZodError")
  /\ (call.fn = "validateTaskId" /\ call.applied) =>
       \A i \in DOMAIN call.value.sent : C21_Shape(call.value.sent[i], FALSE)

C21_Witness ==
  \E c \in DOMAIN req :
    /\ req[c].pc = "done" /\ req[c].op = "getById"
    /\ req[c].response.status = 404
    /\ req[c].nexts = 0
    /\ "details" \notin DOMAIN req[c].response.body

\* C22: for an unexpected error (one answered 500) errorHandler's response
\* has no message field when NODE_ENV is not 'development', and is then the
\* same for any two errors that differ only in their message; when NODE_ENV
\* is 'development' the response has the error's message as message.
C22_Unexpected(e) ==
  /\ e.name # "ZodError"
  /\ ~(e.name = "PrismaClientKnownRequestError" /\ e.code \in {"P2025", "P2002"})

C22_SameButMessage(e1, e2) ==
  /\ DOMAIN e1 = DOMAIN e2
  /\ \A k \in DOMAIN e1 \ {"message"} : e1[k] = e2[k]

C22_NoLeak ==
  (call.fn = "errorHandler" /\ call.applied /\ C22_Unexpected(call.arg)) =>
    LET body == call.value[1].body
    IN /\ call.value[1].status = 500
       /\ nodeEnv # "development" =>
            /\ "message" \notin DOMAIN body
            /\ DOMAIN body = {"success", "error"}
            /\ \A e2 \in Errors :
                 C22_SameButMessage(call.arg, e2) =>
                   errorHandler(e2, nodeEnv) = call.value
       /\ nodeEnv = "development" =>
            /\ "message" \in DOMAIN body
            /\ body.message = call.arg.message

C22_Witness ==
  /\ call.fn = "errorHandler" /\ call.applied
  /\ nodeEnv = "test"
  /\ call.arg = OtherError("boom")
  /\ C22_SameButMessage(call.arg, OtherError("db unavailable"))
  /\ call.value = errorHandler(OtherError("db unavailable"), nodeEnv)

\* C23: createTaskSchema either returns an object with title, with
\* description when the input has one, and with a status that is never
\* absent, or fails with issues among which every violated field of the
\* input has an entry; it fails exactly when some field is violated.
C23_Violated(body) ==
  {k \in {"title", "description", "status"} :
     \/ k = "title" /\ "title" \notin DOMAIN body
     \/ k \in DOMAIN body /\ ~FieldValid(k, body[k])}

C23_CreateValidation ==
  (call.fn = "createTaskSchema" /\ call.applied) =>
    LET body == call.arg
        out == call.value
    IN /\ out.ok <=> C23_Violated(body) = {}
       /\ out.ok =>
            /\ {"title", "status"} \subseteq DOMAIN out.data
            /\ DOMAIN out.data \subseteq {"title", "description", "status"}
            /\ ("description" \in DOMAIN out.data) <=> ("description" \in DOMAIN body)
            /\ out.data["status"] \in {"pending", "in_progress", "completed"}
            /\ "status" \notin DOMAIN body => out.data["status"] = "pending"
       /\ ~out.ok =>
            /\ out.error.name = "ZodError"
            /\ {out.error.errors[i].path : i \in DOMAIN out.error.errors}
                 = {<<k>> : k \in C23_Violated(body)}

C23_Witness ==
  /\ call.fn = "createTaskSchema" /\ call.applied
  /\ C23_Violated(call.arg) = {"title", "description", "status"}
  /\ "title" \in DOMAIN call.arg
  /\ Len(call.value.error.errors) = 3

\* C24: createTaskSchema and updateTaskSchema, given a title, report an
\* issue on title exactly when it is not a string of 1 to 200 characters
\* (the empty string and 201 characters are rejected, 200 are accepted);
\* an accepted title is passed on as it is, spaces and case included, and
\* a created row holds the title of its request body.
C24_TitleOk(v) == v.t = "string" /\ Len(v.s) >= 1 /\ Len(v.s) <= 200

C24_TitleBounds ==
  /\ (/\ call.fn \in {"createTaskSchema", "updateTaskSchema"}
      /\ call.applied
      /\ "title" \in DOMAIN call.arg) =>
       LET title == call.arg["title"]
           out == call.value
           onTitle == ~out.ok /\ \E i \in DOMAIN out.error.errors :
                                   out.error.errors[i].path = <<"title">>
       IN /\ onTitle <=> ~C24_TitleOk(title)
          /\ out.ok => out.data["title"] = title.s
  /\ \A i \in DOMAIN tasks \cap DOMAIN origin : tasks[i].title = origin[i]["title"].s

C24_Witness ==
  /\ call.fn = "createTaskSchema" /\ call.applied
  /\ "title" \in DOMAIN call.arg
  /\ call.arg["title"] = Str(<<" ">>)
  /\ call.value.ok
  /\ call.value.data["title"] = <<" ">>

\* C30: a handler invocation that has ended has either sent one response
\* itself or called next(error) once, not both and not neither; while it
\* waits for the service it has done neither.
C30_OneOutcome ==
  \A c \in DOMAIN req :
    /\ req[c].pc = "done" =>
         /\ req[c].replied + req[c].nexts = 1
         /\ req[c].replied \in {0, 1} /\ req[c].nexts \in {0, 1}
    /\ req[c].pc \in {"run", "db"} =>
         req[c].replied = 0 /\ req[c].nexts = 0

C30_Witness ==
  \E c \in DOMAIN req :
    /\ req[c].pc = "done" /\ req[c].op = "update"
    /\ req[c].dbCalls = 1
    /\ req[c].nexts = 1 /\ req[c].replied = 0
    /\ req[c].raised.name = "PrismaClientKnownRequestError"

\* C25: for every integer n of the range each of sum_to_n_a, sum_to_n_b,
\* sum_to_n_c returns, and what it returns is n(n+1)/2 when n >= 0 and the
\* sum of the integers n .. -1, that is -(|n|(|n|+1)/2), when n < 0; so the
\* three agree.
RECURSIVE C25_SumFromTo(_, _)
C25_SumFromTo(lo, hi) == IF lo > hi THEN 0 ELSE lo + C25_SumFromTo(lo + 1, hi)

C25_Abs(n) == IF n < 0 THEN -n ELSE n

C25_Expected(n) ==
  IF n >= 0 THEN (n * (n + 1)) \div 2
  ELSE -((C25_Abs(n) * (C25_Abs(n) + 1)) \div 2)

C25_Correct ==
  call.applied =>
    /\ call.value = C25_Expected(call.arg)
    /\ call.value = IF call.arg >= 0 THEN C25_SumFromTo(1, call.arg)
                    ELSE C25_SumFromTo(call.arg, -1)

C25_SumAgreement == [](call.fn \in SumFunctions => C25_Correct) /\ <>call.applied

C25_Witness ==
  /\ call.fn = "sum_to_n_c" /\ call.applied
  /\ call.arg = -MaxN
  /\ call.value = -((MaxN * (MaxN + 1)) \div 2)

\* C26: two updates of the same existing task that run at once both answer
\* 200 with no error raised; a committing update writes exactly the columns
\* it supplies and leaves the others, so that afterwards each column holds
\* the value of the last committed update that supplied it, and two updates
\* of disjoint columns both take effect in either order.
C26_Written(data, f) == IF f = "description" THEN Str(data[f]) ELSE data[f]

C26_Commit(c) ==
  (InDb(c, "update") /\ req'[c].pc = "done" /\ req[c].idNum \in DOMAIN tasks
   /\ \E o \in Racers \ {c} : req[o].op = "update") =>
    /\ req'[c].response.status = 200
    /\ req'[c].raised = NoError
    /\ req[c].idNum \in DOMAIN tasks'
    /\ \A f \in TaskKeys :
         tasks'[req[c].idNum][f] =
           IF f \in DOMAIN req[c].data THEN C26_Written(req[c].data, f)
           ELSE tasks[req[c].idNum][f]

C26_Settled ==
  \A c1, c2 \in Racers :
    (c1 # c2 /\ Done(c1, "update") /\ Done(c2, "update")) =>
      /\ req[c1].response.status = 200 /\ req[c2].response.status = 200
      /\ 1 \in DOMAIN tasks
      /\ \A f \in TaskKeys :
           LET suppliers == {c \in {c1, c2} : f \in DOMAIN req[c].data}
           IN IF suppliers = {}
                THEN /\ writer[1][f] = 0
                     /\ tasks[1][f] = Row(1, createTaskSchema(FirstBody).data, 0)[f]
                ELSE /\ writer[1][f] \in suppliers
                     /\ tasks[1][f] = C26_Written(req[writer[1][f]].data, f)

C26_LastWriteWins == [][(\A c \in Racers : C26_Commit(c)) /\ C26_Settled']_vars

C26_Witness ==
  /\ Done(1, "update") /\ Done(2, "update")
  /\ req[1].response.status = 200 /\ req[2].response.status = 200
  /\ DOMAIN req[1].data = {"title"} /\ DOMAIN req[2].data = {"status"}
  /\ tasks[1].title = req[1].data["title"]
  /\ tasks[1].status = req[2].data["status"]
  /\ writer[1] = [title |-> 1, description |-> 0, status |-> 2]

\* C27: an update and a delete of the same existing id that run at once:
\* each statement answers by what the table holds when it commits (the row
\* is there: 200; it is gone: P2025, answered 404), one statement is issued
\* per request and none waits for the other; the row is gone once the
\* delete has committed, whichever came first.
C27_NotFound == Response(404, [success |-> FALSE, error |-> "Resource not found"])

C27_Pair ==
  \E c1, c2 \in Racers :
    c1 # c2 /\ req[c1].op = "update" /\ req[c2].op = "delete"

C27_Commit(c) ==
  LET id == req[c].idNum
      r == req'[c]
  IN (req[c].pc = "db" /\ r.pc = "done" /\ req[c].op \in {"update", "delete"}) =>
       /\ r.dbCalls = 1
       /\ IF id \in DOMAIN tasks
            THEN /\ r.response.status = 200
                 /\ r.raised = NoError
                 /\ IF req[c].op = "delete" THEN id \notin DOMAIN tasks'
                    ELSE r.response.body.data = tasks'[id]
            ELSE /\ r.response = C27_NotFound
                 /\ r.raised = PrismaKnown("P2025")
                 /\ tasks' = tasks

C27_Settled ==
  /\ \A c \in Racers :
       /\ InDb(c, "update") => ENABLED updateTask(c)
       /\ InDb(c, "delete") => ENABLED deleteTask(c)
  /\ \A c1, c2 \in Racers :
       (c1 # c2 /\ req[c1].op = "update" /\ Done(c2, "delete")) =>
         /\ req[c2].response.status = 200
         /\ 1 \notin DOMAIN tasks
         /\ Done(c1, "update") => req[c1].response.status \in {200, 404}

C27_UpdateDeleteRace ==
  [][C27_Pair => ((\A c \in Racers : C27_Commit(c)) /\ C27_Settled')]_vars

C27_Witness ==
  /\ Done(1, "update") /\ Done(2, "delete")
  /\ req[1].response = C27_NotFound
  /\ req[2].response.status = 200
  /\ 1 \notin DOMAIN tasks

\* C29: the page and the total of every list response describe one state
\* of the table: the number of items is min(limit, max(0, total - offset)),
\* also when a create or a delete commits while the list is in flight.
C29_Min(a, b) == IF a < b THEN a ELSE b

C29_ListConsistent ==
  \A c \in Racers :
    (Done(c, "list") /\ req[c].response.status = 200) =>
      LET body == req[c].response.body
          p == body.pagination
          left == IF p.total > p.offset THEN p.total - p.offset ELSE 0
      IN Len(body.data) = C29_Min(p.limit, left)

====
